---------------------------- MODULE Spec2Model ----------------------------
(***************************************************************************)
(* A model of bibadac: the typo automaton of bibtex_spec.rs, the linter of *)
(* linter.rs, the author formatting of author_format.rs, the ArxivId of    *)
(* arxiv_identifiers.rs and SetupConfig::run of setup.rs.                  *)
(*                                                                         *)
(* Strings are sequences of one-character strings, so that slicing,        *)
(* searching and splitting are computed character by character.  Indices   *)
(* of words in a lexicon are 1-based here (0-based in the source); the     *)
(* second component of an automaton state is a prefix length, as in the    *)
(* source.                                                                 *)
(***************************************************************************)
EXTENDS Naturals, Sequences, FiniteSets

VARIABLES
    \* ---- bibtex_spec.rs: one run of field_typo / entry_typo
    strings,         \* the lexicon the automaton is built from
    input,           \* the argument s of field_typo / entry_typo
    pos,             \* number of characters of input consumed so far
    current_states,  \* run_automaton's current_states
    typo_pc,         \* "start" | "run" | "filtered" | "done" | "panic" | "idle"
    typo_result      \* the Vec of words returned

typo_vars == <<strings, input, pos, current_states, typo_pc, typo_result>>

VARIABLES
    \* ---- linter.rs: the LinterState and one call of lint_field
    revoked_dois,    \* LinterState::revoked_dois
    field_key,       \* the argument key of lint_field
    field_value,     \* the argument value of lint_field
    field_pc,        \* "call" | "done" | "idle"
    field_out        \* the Option<LintMessage> returned: <<>> or <<msg>>

field_vars == <<field_key, field_value, field_pc, field_out>>

VARIABLES
    \* ---- linter.rs: one call of lint_entry or lint_file on a document
    entries,         \* the entries of the document: [key, fields], a field
                     \* being [name, value] (value: the braceless slice)
    root_kind,       \* the kind of the root node of the tree: "document", or
                     \* "ERROR" when the parse ends in the error state
    error_nodes,     \* the text of each ERROR node below the root
    lint_pc,         \* "call" | "entry_done" | "file_done" | "idle"
    lint_arg,        \* the index of the entry given to lint_entry, else 0
    messages         \* the Vec<Lint> returned

doc_vars == <<entries, root_kind, error_nodes, lint_pc, lint_arg, messages>>

VARIABLES
    \* ---- one call of a function of its argument alone: check_authors of
    \* author_format.rs, is_crucial of linter.rs
    call_arg,        \* the argument
    call_pc,         \* "call" | "done" | "idle"
    call_ret         \* the value returned

call_vars == <<call_arg, call_pc, call_ret>>

VARIABLES
    \* ---- setup.rs: one call of SetupConfig::run
    config,          \* self: existing_doi, existing_arxiv, doi_to_sha256,
                     \* arxiv_to_sha256 (their keys), download_pdf
    dois,            \* the argument dois, in the order dois.iter() lists it
    eprints,         \* the argument eprints, in the order eprints.iter() lists it
    unreachable,     \* the DOIs whose servers give no answer during the call
    requests,        \* doi_requests, arxiv_requests, pdf_requests
    setup_pc,        \* "start" | "doi" | "eprint" | "pdf" | "done" | "idle"
    next_req,        \* the index of the next request the stream will start
    in_flight,       \* the indices of the requests whose futures are running
    collected,       \* the Vec the running stream has collected so far
    res,             \* the local res on which res_doi, res_eprint are extended
    setup_result     \* the SetupResult returned: <<>> before the return

setup_vars == <<config, dois, eprints, unreachable, requests, setup_pc,
                next_req, in_flight, collected, res, setup_result>>

vars == <<typo_vars, revoked_dois, field_vars, doc_vars, call_vars, setup_vars>>

\* what an operation on one part of the state leaves alone
non_typo_vars == <<revoked_dois, field_vars, doc_vars, call_vars, setup_vars>>
non_field_vars == <<typo_vars, doc_vars, call_vars, setup_vars>>
non_doc_vars == <<typo_vars, field_vars, call_vars, setup_vars>>
non_call_vars == <<typo_vars, revoked_dois, field_vars, doc_vars, setup_vars>>
non_setup_vars == <<typo_vars, revoked_dois, field_vars, doc_vars, call_vars>>

(***************************************************************************)
(* Bounds of the model.                                                    *)
(***************************************************************************)
MaxWords == 2
MaxWordLen == 3
MaxLexiconLen == 6
MaxInputLen == 4
MaxPieces == 3
MaxEntryFields == 3
MaxVersion == 2
MaxAuthorPieces == 4
MaxDois == 2
MaxEprints == 2
MaxDocSize == 4

Chars == {"a", "b"}

\* Option<char>::None, the label of a transition that names no character
None == "None"

(***************************************************************************)
(* Generic helpers on sequences.                                           *)
(***************************************************************************)
SeqsUpTo(S, n) == UNION {[1..k -> S] : k \in 0..n}

\* s[..k] of the source: the first k characters
Prefix(s, k) == SubSeq(s, 1, k)

\* s without its p-th character
RemoveAt(s, p) == SubSeq(s, 1, p - 1) \o SubSeq(s, p + 1, Len(s))

RECURSIVE SumLen(_)
SumLen(l) == IF l = <<>> THEN 0 ELSE Len(Head(l)) + SumLen(Tail(l))

\* every sequence that lists the elements of the finite set S once each
RECURSIVE Orderings(_)
Orderings(S) ==
    IF S = {} THEN {<<>>}
    ELSE UNION {{<<x>> \o o : o \in Orderings(S \ {x})} : x \in S}

Range(s) == {s[i] : i \in 1..Len(s)}

(***************************************************************************)
(* bibtex_spec.rs: the two lexicons.                                       *)
(***************************************************************************)
BIBTEX_ENTRY_TYPES ==
    << <<"a","r","t","i","c","l","e">>,
       <<"b","o","o","k">>,
       <<"b","o","o","k","l","e","t">>,
       <<"c","o","n","f","e","r","e","n","c","e">>,
       <<"i","n","b","o","o","k">>,
       <<"i","n","c","o","l","l","e","c","t","i","o","n">>,
       <<"i","n","p","r","o","c","e","e","d","i","n","g","s">>,
       <<"m","a","n","u","a","l">>,
       <<"m","a","s","t","e","r","s","t","h","e","s","i","s">>,
       <<"m","i","s","c">>,
       <<"p","h","d","t","h","e","s","i","s">>,
       <<"p","r","o","c","e","e","d","i","n","g","s">>,
       <<"t","e","c","h","r","e","p","o","r","t">>,
       <<"u","n","p","u","b","l","i","s","h","e","d">>,
       <<"p","a","t","e","n","t">>,
       <<"b","o","o","k","i","n","b","o","o","k">>,
       <<"s","u","p","p","b","o","o","k">>,
       <<"s","u","p","p","c","o","l","l","e","c","t","i","o","n">>,
       <<"s","u","p","p","p","e","r","i","o","d","i","c","a","l">>,
       <<"m","v","b","o","o","k">>,
       <<"m","v","c","o","l","l","e","c","t","i","o","n">>,
       <<"m","v","p","r","o","c","e","e","d","i","n","g","s">>,
       <<"t","a","l","k">>,
       <<"m","a","p","p","i","n","g">> >>

BIBTEX_FIELDS ==
    << <<"a","d","d","r","e","s","s">>,
       <<"a","n","n","o","t","e">>,
       <<"a","u","t","h","o","r">>,
       <<"b","o","o","k","t","i","t","l","e">>,
       <<"c","h","a","p","t","e","r">>,
       <<"c","r","o","s","s","r","e","f">>,
       <<"e","d","i","t","i","o","n">>,
       <<"e","d","i","t","o","r">>,
       <<"h","o","w","p","u","b","l","i","s","h","e","d">>,
       <<"i","n","s","t","i","t","u","t","i","o","n">>,
       <<"j","o","u","r","n","a","l">>,
       <<"k","e","y">>,
       <<"m","o","n","t","h">>,
       <<"n","o","t","e">>,
       <<"n","u","m","b","e","r">>,
       <<"o","r","g","a","n","i","z","a","t","i","o","n">>,
       <<"p","a","g","e","s">>,
       <<"p","u","b","l","i","s","h","e","r">>,
       <<"s","c","h","o","o","l">>,
       <<"s","e","r","i","e","s">>,
       <<"t","i","t","l","e">>,
       <<"t","y","p","e">>,
       <<"v","o","l","u","m","e">>,
       <<"y","e","a","r">>,
       <<"e","p","r","i","n","t">>,
       <<"a","r","c","h","i","v","e","p","r","e","f","i","x">>,
       <<"p","r","i","m","a","r","y","c","l","a","s","s">>,
       <<"k","e","y","w","o","r","d","s">> >>

(***************************************************************************)
(* bibtex_spec.rs: the automaton.                                          *)
(***************************************************************************)
Left(s) == <<"Left", s>>
Right(s) == <<"Right", s>>

\* assigning_automaton whose final states are at the index of the last
\* character of the words instead of their length
assigning_automaton_FinalAtLastIndex(strs) ==
    [ final_states   |-> {<<i, Len(strs[i]) - 1>> : i \in 1..Len(strs)},
      initial_states |-> {<<i, 0>> : i \in 1..Len(strs)},
      transitions    |->
        UNION { UNION { { <<<<i, k>>, strs[i][k + 1], <<j, k + 1>>>> :
                            k \in { k \in 0..(Len(strs[i]) - 1) :
                                      /\ k < Len(strs[j])
                                      /\ strs[i][k + 1] = strs[j][k + 1]
                                      /\ Prefix(strs[i], k) = Prefix(strs[j], k) } }
                        : j \in 1..Len(strs) }
                : i \in 1..Len(strs) } ]

\* assigning_automaton with a root state shared by the words, initial and
\* final
assigning_automaton_SharedRoot(strs) ==
    [ final_states   |-> {<<0, 0>>} \cup {<<i, Len(strs[i])>> : i \in 1..Len(strs)},
      initial_states |-> {<<0, 0>>} \cup {<<i, 0>> : i \in 1..Len(strs)},
      transitions    |->
        UNION { UNION { { <<<<i, k>>, strs[i][k + 1], <<j, k + 1>>>> :
                            k \in { k \in 0..(Len(strs[i]) - 1) :
                                      /\ k < Len(strs[j])
                                      /\ strs[i][k + 1] = strs[j][k + 1]
                                      /\ Prefix(strs[i], k) = Prefix(strs[j], k) } }
                        : j \in 1..Len(strs) }
                : i \in 1..Len(strs) } ]

\* assigning_automaton: states are <<word index, prefix length>>
assigning_automaton(strs) ==
    [ final_states   |-> {<<i, Len(strs[i])>> : i \in 1..Len(strs)},
      initial_states |-> {<<i, 0>> : i \in 1..Len(strs)},
      transitions    |->
        UNION { UNION { { <<<<i, k>>, strs[i][k + 1], <<j, k + 1>>>> :
                            k \in { k \in 0..(Len(strs[i]) - 1) :
                                      /\ k < Len(strs[j])
                                      /\ strs[i][k + 1] = strs[j][k + 1]
                                      /\ Prefix(strs[i], k) = Prefix(strs[j], k) } }
                        : j \in 1..Len(strs) }
                : i \in 1..Len(strs) } ]

\* SwitchTransitions whose switch that follows the transition stays in the
\* Left copy
SwitchTransitionsStayLeft(a) ==
    UNION { { <<Left(t[1]), t[2], Left(t[3])>>,
              <<Right(t[1]), t[2], Right(t[3])>>,
              <<Left(t[1]), None, Left(t[3])>>,
              <<Left(t[1]), None, Right(t[1])>> } : t \in a.transitions }

\* SwitchTransitions without the switch that follows the transition
SwitchTransitionsNoAdvance(a) ==
    UNION { { <<Left(t[1]), t[2], Left(t[3])>>,
              <<Right(t[1]), t[2], Right(t[3])>>,
              <<Left(t[1]), None, Right(t[1])>> } : t \in a.transitions }

\* the first loop of non_deterministic_duplicate: the two copies and the
\* two label-free switches from the unedited to the edited copy
SwitchTransitions(a) ==
    UNION { { <<Left(t[1]), t[2], Left(t[3])>>,
              <<Right(t[1]), t[2], Right(t[3])>>,
              <<Left(t[1]), None, Right(t[3])>>,
              <<Left(t[1]), None, Right(t[1])>> } : t \in a.transitions }

\* TwoLetterTransitions with the first label only
TwoLetterTransitionsFirstLabel(a) ==
    UNION { { <<Left(t1[1]), t1[2], Right(t2[3])>> }
            : <<t1, t2>> \in { p \in a.transitions \X a.transitions : p[1][3] = p[2][1] } }

\* the second loop: for chained transitions u -la-> v = w -lb-> x
TwoLetterTransitions(a) ==
    UNION { { <<Left(t1[1]), t1[2], Right(t2[3])>>,
              <<Left(t1[1]), t2[2], Right(t2[3])>> }
            : <<t1, t2>> \in { p \in a.transitions \X a.transitions : p[1][3] = p[2][1] } }

\* non_deterministic_duplicate whose final states are those of both copies
non_deterministic_duplicate_BothFinal(a) ==
    [ final_states   |-> {Right(s) : s \in a.final_states} \cup {Left(s) : s \in a.final_states},
      initial_states |-> {Left(s) : s \in a.initial_states},
      transitions    |-> SwitchTransitions(a) \cup TwoLetterTransitions(a) ]

non_deterministic_duplicate(a) ==
    [ final_states   |-> {Right(s) : s \in a.final_states},
      initial_states |-> {Left(s) : s \in a.initial_states},
      transitions    |-> SwitchTransitions(a) \cup TwoLetterTransitions(a) ]

\* run_transition whose arm for None answers None: a transition without
\* label is never taken
run_transition_LabelOnly(from, c, to, state, d) ==
    IF state # from THEN {}
    ELSE IF c = d THEN {to}
    ELSE {}

\* run_transition: Option<T> as a set of at most one state
run_transition(from, c, to, state, d) ==
    IF state # from THEN {}
    ELSE IF c = d THEN {to}
    ELSE IF c = None THEN {to}
    ELSE {}

\* the body of run_automaton's loop for the character c: every transition
\* is tried on every current state (run_transition answers None for a state
\* that is not the transition's source, so only that state is tried here)
StepStates(a, states, c) ==
    UNION { UNION { run_transition(t[1], t[2], t[3], state, c) : state \in states \cap {t[1]} }
            : t \in a.transitions }

\* field_typo_automaton / entry_typo_automaton
typo_automaton(strs) == non_deterministic_duplicate(assigning_automaton(strs))

(***************************************************************************)
(* One call of field_typo / entry_typo, step by step.                      *)
(***************************************************************************)
field_typo_automaton == typo_automaton(BIBTEX_FIELDS)
entry_typo_automaton == typo_automaton(BIBTEX_ENTRY_TYPES)

\* the automaton of the run: the two statics are built once
nfa ==
    IF strings = BIBTEX_FIELDS THEN field_typo_automaton
    ELSE IF strings = BIBTEX_ENTRY_TYPES THEN entry_typo_automaton
    ELSE typo_automaton(strings)

Words == SeqsUpTo(Chars, MaxWordLen) \ {<<>>}
Lexicons == {l \in SeqsUpTo(Words, MaxWords) : SumLen(l) <= MaxLexiconLen}
Inputs == SeqsUpTo(Chars, MaxInputLen)

\* s with the character c put after its first p characters
InsertAt(s, p, c) == SubSeq(s, 1, p) \o <<c>> \o SubSeq(s, p + 1, Len(s))

\* s with its p-th character replaced by c
SubstAt(s, p, c) == [s EXCEPT ![p] = c]

\* the inputs tried on a lexicon of the source: each word, each word with
\* one character deleted, replaced by "x" or with an "x" inserted, and each
\* word without its last two characters
EditedInputs(lex) ==
    UNION { {lex[i]}
            \cup {RemoveAt(lex[i], p) : p \in 1..Len(lex[i])}
            \cup {SubstAt(lex[i], p, "x") : p \in 1..Len(lex[i])}
            \cup {InsertAt(lex[i], p, "x") : p \in 0..Len(lex[i])}
            \cup {Prefix(lex[i], Len(lex[i]) - 2)}
            : i \in 1..Len(lex) }

FieldInputs == EditedInputs(BIBTEX_FIELDS)
EntryInputs == EditedInputs(BIBTEX_ENTRY_TYPES)

TypoInit ==
    /\ \/ /\ strings \in Lexicons
          /\ input \in Inputs
       \/ /\ strings = BIBTEX_FIELDS
          /\ input \in FieldInputs
       \/ /\ strings = BIBTEX_ENTRY_TYPES
          /\ input \in EntryInputs
    /\ pos = 0
    /\ current_states = {}
    /\ typo_pc = "start"
    /\ typo_result = <<>>

\* run_automaton, line 187
RunStart ==
    /\ typo_pc = "start"
    /\ current_states' = nfa.initial_states
    /\ typo_pc' = "run"
    /\ UNCHANGED <<strings, input, pos, typo_result>>
    /\ UNCHANGED non_typo_vars

\* run_automaton, lines 188-200: one iteration of the loop
RunStep ==
    /\ typo_pc = "run"
    /\ pos < Len(input)
    /\ current_states' = StepStates(nfa, current_states, input[pos + 1])
    /\ pos' = pos + 1
    /\ UNCHANGED <<strings, input, typo_pc, typo_result>>
    /\ UNCHANGED non_typo_vars

\* run_automaton, lines 201-204: keep the final states
RunFilter ==
    /\ typo_pc = "run"
    /\ pos = Len(input)
    /\ current_states' = current_states \cap nfa.final_states
    /\ typo_pc' = "filtered"
    /\ UNCHANGED <<strings, input, pos, typo_result>>
    /\ UNCHANGED non_typo_vars

\* field_typo / entry_typo, lines 233-243 and 249-255: the map over the
\* states, in the iteration order of the HashSet; a Right state gives its
\* word and a Left state panics
TypoCollect ==
    /\ typo_pc = "filtered"
    /\ IF \E s \in current_states : s[1] = "Left"
       THEN /\ typo_pc' = "panic"
            /\ UNCHANGED typo_result
       ELSE /\ \E o \in Orderings(current_states) :
                  typo_result' = [n \in 1..Len(o) |-> strings[o[n][2][1]]]
            /\ typo_pc' = "done"
    /\ UNCHANGED <<strings, input, pos, current_states>>
    /\ UNCHANGED non_typo_vars

(***************************************************************************)
(* One run of run_automaton on assigning_automaton(strings), as in the     *)
(* tests of lines 262-288.                                                 *)
(***************************************************************************)
hello == <<"h","e","l","l","o">>
world == <<"w","o","r","l","d">>
hell == <<"h","e","l","l">>
hel == <<"h","e","l">>

\* the word lists of the base automaton: those of the bounds, the empty
\* word included, and those of the tests
BaseLexicons == {l \in SeqsUpTo(Words \cup {<<>>}, MaxWords) : SumLen(l) <= MaxLexiconLen}

BaseInit ==
    /\ \/ /\ strings \in BaseLexicons
          /\ input \in Inputs
       \/ /\ strings \in {<<hello, world>>, <<hello, hell>>}
          /\ input \in {hello, world, hell, hel}
    /\ pos = 0
    /\ current_states = {}
    /\ typo_pc = "base_start"
    /\ typo_result = <<>>

\* run_automaton, line 187
BaseStart ==
    /\ typo_pc = "base_start"
    /\ current_states' = assigning_automaton(strings).initial_states
    /\ typo_pc' = "base_run"
    /\ UNCHANGED <<strings, input, pos, typo_result>>
    /\ UNCHANGED non_typo_vars

\* run_automaton, lines 188-200
BaseStep ==
    /\ typo_pc = "base_run"
    /\ pos < Len(input)
    /\ current_states' = StepStates(assigning_automaton(strings), current_states, input[pos + 1])
    /\ pos' = pos + 1
    /\ UNCHANGED <<strings, input, typo_pc, typo_result>>
    /\ UNCHANGED non_typo_vars

\* run_automaton, lines 201-204: the set returned is current_states
BaseFilter ==
    /\ typo_pc = "base_run"
    /\ pos = Len(input)
    /\ current_states' = current_states \cap assigning_automaton(strings).final_states
    /\ typo_pc' = "base_done"
    /\ UNCHANGED <<strings, input, pos, typo_result>>
    /\ UNCHANGED non_typo_vars

TypoNext == RunStart \/ RunStep \/ RunFilter \/ TypoCollect

TypoIdle ==
    /\ strings = <<>>
    /\ input = <<>>
    /\ pos = 0
    /\ current_states = {}
    /\ typo_pc = "idle"
    /\ typo_result = <<>>

(***************************************************************************)
(* Strings of field values: characters, searching and splitting.           *)
(***************************************************************************)
\* Rust string literals of the source
Str_arXiv == <<"a","r","X","i","v">>
Str_http == <<"h","t","t","p">>
Str_and == <<" ","a","n","d"," ">>

\* the characters of the model for which char::is_control is true
ControlChars == {"\n", "\t"}

\* the characters of the model for which char::is_whitespace is true
WhitespaceChars == {" ", "\n", "\t"}

\* str::starts_with
StartsWith(s, pat) == Len(pat) <= Len(s) /\ SubSeq(s, 1, Len(pat)) = pat

\* str::ends_with
EndsWith(s, pat) ==
    Len(pat) <= Len(s) /\ SubSeq(s, Len(s) - Len(pat) + 1, Len(s)) = pat

\* the start positions of pat in s
Occurrences(s, pat) ==
    {p \in 1..(Len(s) - Len(pat) + 1) : SubSeq(s, p, p + Len(pat) - 1) = pat}

\* str::contains with a string pattern
Contains(s, pat) == Len(pat) = 0 \/ Occurrences(s, pat) # {}

Min(S) == CHOOSE x \in S : \A y \in S : x <= y

\* str::split with a non-empty string pattern: the pieces between the
\* successive leftmost occurrences of pat (empty pieces kept)
RECURSIVE Split(_, _)
Split(s, pat) ==
    IF Occurrences(s, pat) = {} THEN <<s>>
    ELSE LET p == Min(Occurrences(s, pat))
         IN  <<SubSeq(s, 1, p - 1)>> \o Split(SubSeq(s, p + Len(pat), Len(s)), pat)

\* str::split_whitespace: the maximal runs of non-whitespace characters
RECURSIVE SplitWhitespace(_)
SplitWhitespace(s) ==
    IF s = <<>> THEN <<>>
    ELSE IF Head(s) \in WhitespaceChars THEN SplitWhitespace(Tail(s))
    ELSE LET stops == {p \in 1..Len(s) : s[p] \in WhitespaceChars}
             n == IF stops = {} THEN Len(s) ELSE Min(stops) - 1
         IN  <<SubSeq(s, 1, n)>> \o SplitWhitespace(SubSeq(s, n + 1, Len(s)))

(***************************************************************************)
(* author_format.rs                                                        *)
(***************************************************************************)
\* the loop body of check_authors: TRUE when the component makes it
\* return false
AuthorRejected(a) ==
    LET parts == SplitWhitespace(a)
    IN  Len(parts) >= 2 /\ ~EndsWith(parts[1], <<",">>)

check_authors(authors) ==
    LET as == Split(authors, Str_and)
    IN  \A n \in 1..Len(as) : ~AuthorRejected(as[n])

\* [&str]::join and Iterator::join: the strings of l with sep between them
RECURSIVE Join(_, _)
Join(l, sep) ==
    IF l = <<>> THEN <<>>
    ELSE IF Len(l) = 1 THEN l[1]
    ELSE l[1] \o sep \o Join(Tail(l), sep)

\* the closure of lines 13-29 panics: parts is empty, and parts.len() - 1
\* underflows (or indexes beyond parts when the subtraction wraps)
FormatAuthorPanics(a) == ~Contains(a, <<",">>) /\ SplitWhitespace(a) = <<>>

\* format_author keeping the first of the leading tokens only
format_author_FirstOnly(a) ==
    IF Contains(a, <<",">>) THEN a
    ELSE LET parts == SplitWhitespace(a)
         IN  IF Len(parts) = 1 THEN parts[1]
             ELSE Join(<<parts[Len(parts)] \o <<",">>, parts[1]>>, <<" ">>)

\* the closure of lines 13-29 on a component for which it returns
format_author(a) ==
    IF Contains(a, <<",">>) THEN a
    ELSE LET parts == SplitWhitespace(a)
         IN  IF Len(parts) = 1 THEN parts[1]
             ELSE Join(<<parts[Len(parts)] \o <<",">>>> \o SubSeq(parts, 1, Len(parts) - 1), <<" ">>)

\* format_authors when no component panics
format_authors(authors) ==
    LET as == Split(authors, Str_and)
    IN  Join([n \in 1..Len(as) |-> format_author(as[n])], Str_and)

(***************************************************************************)
(* linter.rs: LintMessage and lint_field.                                  *)
(***************************************************************************)
\* a LintMessage: its variant and its payload
Msg(kind, args) == [kind |-> kind, args |-> args]

\* the closure of line 130
IsWeird(c) == c # "\n" /\ (c \in ControlChars \/ c = "\\")

\* lint_field with the doi rules for http and arXiv exchanged
lint_field_HttpFirst(key, value) ==
    IF value = <<>> THEN <<Msg("EmptyKey", <<>>)>>
    ELSE IF key = "author" /\ ~check_authors(value) THEN <<Msg("AuthorFormat", <<>>)>>
    ELSE IF key = "doi" /\ StartsWith(value, Str_http) THEN <<Msg("HttpDoi", <<>>)>>
    ELSE IF key = "doi" /\ Contains(value, Str_arXiv) THEN <<Msg("ArxivAsDoi", <<>>)>>
    ELSE IF key = "doi" /\ value \in revoked_dois THEN <<Msg("RevokedEntry", <<>>)>>
    ELSE IF /\ key # "doi"
            /\ key # "eprint"
            /\ key # "url"
            /\ \E p \in 1..Len(value) : IsWeird(value[p])
         THEN <<Msg("WeirdCharacters", <<value>>)>>
    ELSE <<>>

\* lint_field: <<>> for None, <<msg>> for Some(msg)
lint_field(key, value) ==
    IF value = <<>> THEN <<Msg("EmptyKey", <<>>)>>
    ELSE IF key = "author" /\ ~check_authors(value) THEN <<Msg("AuthorFormat", <<>>)>>
    ELSE IF key = "doi" /\ Contains(value, Str_arXiv) THEN <<Msg("ArxivAsDoi", <<>>)>>
    ELSE IF key = "doi" /\ StartsWith(value, Str_http) THEN <<Msg("HttpDoi", <<>>)>>
    ELSE IF key = "doi" /\ value \in revoked_dois THEN <<Msg("RevokedEntry", <<>>)>>
    ELSE IF /\ key # "doi"
            /\ key # "eprint"
            /\ key # "url"
            /\ \E p \in 1..Len(value) : IsWeird(value[p])
         THEN <<Msg("WeirdCharacters", <<value>>)>>
    ELSE <<>>

(***************************************************************************)
(* One call of lint_field.                                                 *)
(***************************************************************************)
\* the pieces field values are made of
Pieces ==
    { Str_arXiv, Str_http, Str_and, <<"\\">>, <<"\n">>, <<"\t">>,
      <<"A">>, <<" ", "B">>, <<",">> }

RECURSIVE Concat(_)
Concat(l) == IF l = <<>> THEN <<>> ELSE Head(l) \o Concat(Tail(l))

FieldValues == {Concat(l) : l \in SeqsUpTo(Pieces, MaxPieces)}

FieldKeys == {"author", "doi", "eprint", "url", "title"}

\* the DOIs that may be revoked
RevokedCandidates == {<<"A">>, Str_http \o <<"A">>, <<"A">> \o Str_arXiv}

FieldInit ==
    /\ revoked_dois \in SUBSET RevokedCandidates
    /\ field_key \in FieldKeys
    /\ field_value \in FieldValues
    /\ field_pc = "call"
    /\ field_out = <<>>

LintField ==
    /\ field_pc = "call"
    /\ field_out' = lint_field(field_key, field_value)
    /\ field_pc' = "done"
    /\ UNCHANGED <<revoked_dois, field_key, field_value>>
    /\ UNCHANGED non_field_vars

FieldIdle ==
    /\ field_key = ""
    /\ field_value = <<>>
    /\ field_pc = "idle"
    /\ field_out = <<>>

(***************************************************************************)
(* bibtex.rs: the tree of a document and BibFile::iterate.  A node is the  *)
(* path of child indices that leads to it from the root, <<>>.  The        *)
(* children of the root are the ERROR nodes, then the entries; the         *)
(* children of an entry are its fields.                                    *)
(***************************************************************************)
NumChildren(node) ==
    IF node = <<>> THEN Len(error_nodes) + Len(entries)
    ELSE IF Len(node) = 1 /\ node[1] > Len(error_nodes)
         THEN Len(entries[node[1] - Len(error_nodes)].fields)
    ELSE 0

\* Node::kind
Kind(node) ==
    IF node = <<>> THEN root_kind
    ELSE IF Len(node) = 2 THEN "field"
    ELSE IF node[1] <= Len(error_nodes) THEN "ERROR"
    ELSE "entry"

Parent(node) == SubSeq(node, 1, Len(node) - 1)

\* TreeCursor::goto_next_sibling succeeds: the cursor of root.walk() never
\* leaves the subtree of the root
HasNextSibling(node) == node # <<>> /\ node[Len(node)] < NumChildren(Parent(node))

NextSibling(node) == Parent(node) \o <<node[Len(node)] + 1>>

\* DFSIterator, lines 138-164: the nodes that the successive calls of next
\* return from the cursor and the flag is_up
RECURSIVE DFSIterator(_, _)
DFSIterator(cursor, is_up) ==
    IF is_up
    THEN IF HasNextSibling(cursor)
         THEN <<NextSibling(cursor)>> \o DFSIterator(NextSibling(cursor), FALSE)
         ELSE IF cursor # <<>> THEN DFSIterator(Parent(cursor), TRUE)
         ELSE <<>>
    ELSE IF NumChildren(cursor) > 0
         THEN <<cursor \o <<1>>>> \o DFSIterator(cursor \o <<1>>, FALSE)
         ELSE IF HasNextSibling(cursor)
         THEN <<NextSibling(cursor)>> \o DFSIterator(NextSibling(cursor), FALSE)
         ELSE DFSIterator(cursor, TRUE)

\* BibFile::iterate, lines 46-52
iterate == DFSIterator(<<>>, FALSE)

(***************************************************************************)
(* linter.rs: lint_entry and lint_file.                                    *)
(***************************************************************************)
\* a Lint: a message and the nodes it points at
Lint(msg, loc) == [msg |-> msg, loc |-> loc]

\* the nodes of the document: entry.loc, field.loc and an ERROR node
EntryLoc(e) == <<"entry", e>>
FieldLoc(e, f) == <<"field", e, f>>
ErrorLoc(n) == <<"error", n>>

\* fields.contains_key(name) on the HashMap collected from the fields
ContainsKey(entry, name) ==
    \E f \in 1..Len(entry.fields) : entry.fields[f].name = name

Max(S) == CHOOSE x \in S : \A y \in S : y <= x

\* fields.get(name).unwrap_or(""): collecting into the HashMap keeps the
\* value of the last field of a name
GetOrEmpty(entry, name) ==
    IF ContainsKey(entry, name)
    THEN entry.fields[Max({f \in 1..Len(entry.fields) : entry.fields[f].name = name})].value
    ELSE <<>>

\* the increasing sequence of the elements of a finite set of numbers
RECURSIVE Sorted(_)
Sorted(S) == IF S = {} THEN <<>> ELSE <<Min(S)>> \o Sorted(S \ {Min(S)})

\* the required fields of line 149 without "year"
RequiredFieldsNoYear == <<"author", "title">>

\* line 149
RequiredFields == <<"author", "title", "year">>

\* line 157
OptionalFields == <<"sha256">>

\* the fields of lines 165-170 without "pmid"
CheckableFieldsNoPmid == {"url", "doi", "isbn", "issn", "eprint"}

\* lines 165-170
CheckableFields == {"url", "doi", "isbn", "issn", "eprint", "pmid"}

\* MissingFieldLints located at the entry that follows
MissingFieldLintsNextEntry(entry, e) ==
    LET missing == SelectSeq(RequiredFields, LAMBDA f : ~ContainsKey(entry, f))
    IN  [n \in 1..Len(missing) |-> Lint(Msg("MissingField", <<missing[n]>>), <<EntryLoc(e + 1)>>)]

\* lines 149-156
MissingFieldLints(entry, e) ==
    LET missing == SelectSeq(RequiredFields, LAMBDA f : ~ContainsKey(entry, f))
    IN  [n \in 1..Len(missing) |-> Lint(Msg("MissingField", <<missing[n]>>), <<EntryLoc(e)>>)]

\* lines 157-164
MissingOptionalLints(entry, e) ==
    LET missing == SelectSeq(OptionalFields, LAMBDA f : ~ContainsKey(entry, f))
    IN  [n \in 1..Len(missing) |->
            Lint(Msg("MissingOptionalField", <<missing[n]>>), <<EntryLoc(e)>>)]

\* lines 165-176
UncheckableLints(entry, e) ==
    IF \A f \in CheckableFields : ~ContainsKey(entry, f)
    THEN <<Lint(Msg("UncheckableEntry", <<>>), <<EntryLoc(e)>>)>>
    ELSE <<>>

\* lines 178-182: defined_keys[k], the locations of the fields named k
DefinedKeyLocs(entry, e, k) ==
    LET fs == Sorted({f \in 1..Len(entry.fields) : entry.fields[f].name = k})
    IN  [n \in 1..Len(fs) |-> FieldLoc(e, fs[n])]

\* DuplicateFieldLints reporting every name, repeated or not
DuplicateFieldLintsEveryName(entry, e) ==
    { Lint(Msg("DuplicateFieldName", <<k>>), DefinedKeyLocs(entry, e, k)) :
        k \in {entry.fields[f].name : f \in 1..Len(entry.fields)} }

\* lines 183-190: the lints pushed while iterating defined_keys
DuplicateFieldLints(entry, e) ==
    { Lint(Msg("DuplicateFieldName", <<k>>), DefinedKeyLocs(entry, e, k)) :
        k \in { k \in {entry.fields[f].name : f \in 1..Len(entry.fields)} :
                  Len(DefinedKeyLocs(entry, e, k)) > 1 } }

\* FieldLintsFrom reading the value of a field in the HashMap fields, which
\* holds the value of the last field of each name
RECURSIVE FieldLintsFromMapValue(_, _, _)
FieldLintsFromMapValue(entry, e, f) ==
    IF f > Len(entry.fields) THEN <<>>
    ELSE LET msg == lint_field(entry.fields[f].name, GetOrEmpty(entry, entry.fields[f].name))
         IN  [n \in 1..Len(msg) |-> Lint(msg[n], <<FieldLoc(e, f)>>)]
                 \o FieldLintsFromMapValue(entry, e, f + 1)

\* lines 191-199
RECURSIVE FieldLintsFrom(_, _, _)
FieldLintsFrom(entry, e, f) ==
    IF f > Len(entry.fields) THEN <<>>
    ELSE LET msg == lint_field(entry.fields[f].name, entry.fields[f].value)
         IN  [n \in 1..Len(msg) |-> Lint(msg[n], <<FieldLoc(e, f)>>)]
                 \o FieldLintsFrom(entry, e, f + 1)

\* lint_entry: every Vec it can return, one per iteration order of the
\* HashMap defined_keys
lint_entry(entry, e) ==
    { MissingFieldLints(entry, e) \o MissingOptionalLints(entry, e)
          \o UncheckableLints(entry, e) \o dups \o FieldLintsFrom(entry, e, 1)
      : dups \in Orderings(DuplicateFieldLints(entry, e)) }

\* lines 212-219: the ERROR nodes among the nodes of file.iterate()
SyntaxErrorLints ==
    LET errors == SelectSeq(iterate, LAMBDA node : Kind(node) = "ERROR")
    IN  [n \in 1..Len(errors) |->
            Lint(Msg("SyntaxError", <<error_nodes[errors[n][1]]>>), <<ErrorLoc(errors[n][1])>>)]

\* EntryBlocksFrom with the block of an entry put after those of the
\* entries that follow it
RECURSIVE EntryBlocksFromReversed(_)
EntryBlocksFromReversed(e) ==
    IF e > Len(entries) THEN {<<>>}
    ELSE {rest \o b : b \in lint_entry(entries[e], e), rest \in EntryBlocksFromReversed(e + 1)}

\* line 244 over the loop: the blocks of lint_entry for the entries from e on
RECURSIVE EntryBlocksFrom(_)
EntryBlocksFrom(e) ==
    IF e > Len(entries) THEN {<<>>}
    ELSE {b \o rest : b \in lint_entry(entries[e], e), rest \in EntryBlocksFrom(e + 1)}

\* the locations of the entries of a set of indices, in entry order
EntryLocs(S) ==
    LET es == Sorted(S) IN [n \in 1..Len(es) |-> EntryLoc(es[n])]

\* DuplicateKeyLints reporting every key, duplicated or not
DuplicateKeyLintsEveryKey ==
    { Lint(Msg("DuplicateKey", <<k>>),
           EntryLocs({e \in 1..Len(entries) : entries[e].key = k})) :
        k \in {entries[e].key : e \in 1..Len(entries)} }

\* lines 234, 243, 247-254: used_keys and the lints pushed while iterating it
DuplicateKeyLints ==
    { Lint(Msg("DuplicateKey", <<k>>),
           EntryLocs({e \in 1..Len(entries) : entries[e].key = k})) :
        k \in { k \in {entries[e].key : e \in 1..Len(entries)} :
                  Cardinality({e \in 1..Len(entries) : entries[e].key = k}) > 1 } }

\* lines 235-237: the key of doi_arxiv_sha256 for an entry
IdTuple(entry) ==
    <<GetOrEmpty(entry, "doi"), GetOrEmpty(entry, "arxiv"), GetOrEmpty(entry, "sha256")>>

\* DuplicateIdLints reporting every tuple that is not all empty, shared or
\* not
DuplicateIdLintsEveryTuple ==
    { Lint(Msg("DuplicateDoiArxivSha256", id),
           EntryLocs({e \in 1..Len(entries) : IdTuple(entries[e]) = id})) :
        id \in { id \in {IdTuple(entries[e]) : e \in 1..Len(entries)} :
                   ~(id[1] = <<>> /\ id[2] = <<>> /\ id[3] = <<>>) } }

\* lines 238-241, 257-264: doi_arxiv_sha256 and the lints pushed while
\* iterating it
DuplicateIdLints ==
    { Lint(Msg("DuplicateDoiArxivSha256", id),
           EntryLocs({e \in 1..Len(entries) : IdTuple(entries[e]) = id})) :
        id \in { id \in {IdTuple(entries[e]) : e \in 1..Len(entries)} :
                   /\ ~(id[1] = <<>> /\ id[2] = <<>> /\ id[3] = <<>>)
                   /\ Cardinality({e \in 1..Len(entries) : IdTuple(entries[e]) = id}) > 1 } }

\* lint_file: every Vec it can return, one per iteration order of the
\* HashMaps
lint_file ==
    { SyntaxErrorLints \o blocks \o keys \o ids :
        blocks \in EntryBlocksFrom(1),
        keys \in Orderings(DuplicateKeyLints),
        ids \in Orderings(DuplicateIdLints) }

(***************************************************************************)
(* One call of lint_entry or of lint_file on a document.                   *)
(***************************************************************************)
Keys == {"k1", "k2"}

\* the fields of the one-entry documents
EntryFieldNames ==
    { "author", "title", "year", "sha256", "url", "doi", "isbn", "issn",
      "eprint", "pmid", "arxiv", "note" }
EntryFields == [name : EntryFieldNames, value : {<<"x">>}]

\* the fields of the documents of several entries
FileFieldNames == {"doi", "eprint", "arxiv", "sha256"}
FileFields == [name : FileFieldNames, value : {<<>>, <<"x">>}]

ErrorTexts == {<<"@">>, <<"}">>}

\* the lists of entries of at most b entries and fields together
RECURSIVE EntriesOfSize(_)
EntriesOfSize(b) ==
    {<<>>} \cup
    UNION { { <<[key |-> k, fields |-> fs]>> \o rest :
                k \in Keys, fs \in [1..n -> FileFields], rest \in EntriesOfSize(b - 1 - n) }
            : n \in 0..(b - 1) }

LintInit ==
    /\ \/ /\ revoked_dois = {}
          /\ root_kind = "document"
          /\ error_nodes = <<>>
          /\ \E fs \in SeqsUpTo(EntryFields, MaxEntryFields) :
                entries = <<[key |-> "k1", fields |-> fs]>>
       \/ \E m \in 0..MaxDocSize :
             /\ revoked_dois = {<<"x">>}
             /\ root_kind \in {"document", "ERROR"}
             /\ error_nodes \in [1..m -> ErrorTexts]
             /\ entries \in EntriesOfSize(MaxDocSize - m)
    /\ lint_pc = "call"
    /\ lint_arg = 0
    /\ messages = <<>>

\* a call of lint_entry on the e-th entry
LintEntry ==
    /\ lint_pc = "call"
    /\ \E e \in 1..Len(entries) :
          /\ messages' \in lint_entry(entries[e], e)
          /\ lint_arg' = e
    /\ lint_pc' = "entry_done"
    /\ UNCHANGED <<revoked_dois, entries, root_kind, error_nodes>>
    /\ UNCHANGED non_doc_vars

\* a call of lint_file
LintFile ==
    /\ lint_pc = "call"
    /\ messages' \in lint_file
    /\ lint_pc' = "file_done"
    /\ UNCHANGED <<revoked_dois, entries, root_kind, error_nodes, lint_arg>>
    /\ UNCHANGED non_doc_vars

LintIdle ==
    /\ entries = <<>>
    /\ root_kind = "document"
    /\ error_nodes = <<>>
    /\ lint_pc = "idle"
    /\ lint_arg = 0
    /\ messages = <<>>

(***************************************************************************)
(* linter.rs: LintMessage::is_crucial.                                     *)
(***************************************************************************)
\* is_crucial with the arm of DuplicateKey returning false
is_crucial_DuplicateKeyFalse(msg) ==
    CASE msg.kind = "SyntaxError" -> TRUE
      [] msg.kind = "EmptyKey" -> TRUE
      [] msg.kind = "WeirdCharacters" -> FALSE
      [] msg.kind = "AuthorFormat" -> FALSE
      [] msg.kind = "ArxivAsDoi" -> FALSE
      [] msg.kind = "HttpDoi" -> FALSE
      [] msg.kind = "MissingField" -> TRUE
      [] msg.kind = "UncheckableEntry" -> FALSE
      [] msg.kind = "MissingOptionalField" -> FALSE
      [] msg.kind = "DuplicateFieldName" -> TRUE
      [] msg.kind = "DuplicateKey" -> FALSE
      [] msg.kind = "DuplicateDoiArxivSha256" -> TRUE
      [] msg.kind = "OutdatedEntry" -> FALSE
      [] msg.kind = "PublishedEquivalent" -> FALSE
      [] msg.kind = "RevokedEntry" -> FALSE

\* the match of lines 76-94, arm by arm
is_crucial(msg) ==
    CASE msg.kind = "SyntaxError" -> TRUE
      [] msg.kind = "EmptyKey" -> TRUE
      [] msg.kind = "WeirdCharacters" -> FALSE
      [] msg.kind = "AuthorFormat" -> FALSE
      [] msg.kind = "ArxivAsDoi" -> FALSE
      [] msg.kind = "HttpDoi" -> FALSE
      [] msg.kind = "MissingField" -> TRUE
      [] msg.kind = "UncheckableEntry" -> FALSE
      [] msg.kind = "MissingOptionalField" -> FALSE
      [] msg.kind = "DuplicateFieldName" -> TRUE
      [] msg.kind = "DuplicateKey" -> TRUE
      [] msg.kind = "DuplicateDoiArxivSha256" -> TRUE
      [] msg.kind = "OutdatedEntry" -> FALSE
      [] msg.kind = "PublishedEquivalent" -> FALSE
      [] msg.kind = "RevokedEntry" -> FALSE

\* the variants of LintMessage (lines 14-55) by the number of String
\* fields they carry
Kinds0 ==
    { "EmptyKey", "AuthorFormat", "ArxivAsDoi", "HttpDoi", "UncheckableEntry",
      "OutdatedEntry", "PublishedEquivalent", "RevokedEntry" }
Kinds1 ==
    { "SyntaxError", "WeirdCharacters", "MissingField", "MissingOptionalField",
      "DuplicateFieldName", "DuplicateKey" }
Kinds3 == {"DuplicateDoiArxivSha256"}

\* the strings carried by the messages given to is_crucial
Payloads == {<<>>, <<"x">>, <<"y">>, <<"@">>}

LintMessages ==
    {Msg(k, <<>>) : k \in Kinds0}
        \cup {Msg(k, <<p>>) : k \in Kinds1, p \in Payloads}
        \cup {Msg(k, <<p, q, r>>) : k \in Kinds3, p \in Payloads, q \in Payloads, r \in Payloads}

(***************************************************************************)
(* One call of check_authors, one call of is_crucial.                      *)
(***************************************************************************)
AuthorsInit ==
    /\ call_arg \in FieldValues
    /\ call_pc = "call"
    /\ call_ret = FALSE

CheckAuthors ==
    /\ call_pc = "call"
    /\ call_ret' = check_authors(call_arg)
    /\ call_pc' = "done"
    /\ UNCHANGED call_arg
    /\ UNCHANGED non_call_vars

CrucialInit ==
    /\ call_arg \in LintMessages
    /\ call_pc = "call"
    /\ call_ret = FALSE

IsCrucial ==
    /\ call_pc = "call"
    /\ call_ret' = is_crucial(call_arg)
    /\ call_pc' = "done"
    /\ UNCHANGED call_arg
    /\ UNCHANGED non_call_vars

(***************************************************************************)
(* arxiv_identifiers.rs: ArxivId and its PartialOrd.  An ArxivId is a      *)
(* record [id, version], the Option version being <<>> or <<v>>; the       *)
(* Option<Ordering> returned is <<>> or <<"Less" | "Equal" | "Greater">>.  *)
(***************************************************************************)
\* usize::cmp
cmp(a, b) == IF a < b THEN "Less" ELSE IF a = b THEN "Equal" ELSE "Greater"

\* lines 15-25
partial_cmp(self, other) ==
    IF self.id = other.id
    THEN IF self.version # <<>> /\ other.version # <<>>
              THEN <<cmp(self.version[1], other.version[1])>>
         ELSE IF self.version # <<>> /\ other.version = <<>> THEN <<"Greater">>
         ELSE IF self.version = <<>> /\ other.version # <<>> THEN <<"Less">>
         ELSE <<"Equal">>
    ELSE <<>>

ArxivIds == [id : {<<"x">>, <<"y">>}, version : {<<>>} \cup {<<v>> : v \in 0..MaxVersion}]

ArxivInit ==
    /\ call_arg \in ArxivIds \X ArxivIds
    /\ call_pc = "call"
    /\ call_ret = <<>>

PartialCmp ==
    /\ call_pc = "call"
    /\ call_ret' = partial_cmp(call_arg[1], call_arg[2])
    /\ call_pc' = "done"
    /\ UNCHANGED call_arg
    /\ UNCHANGED non_call_vars

(***************************************************************************)
(* One call of format_authors.                                             *)
(***************************************************************************)
AuthorPieces == {<<"A">>, <<" ", "B">>, <<" ", "C">>, <<",">>, <<" ">>, Str_and}

AuthorValues == {Concat(l) : l \in SeqsUpTo(AuthorPieces, MaxAuthorPieces)}

FormatInit ==
    /\ call_arg \in AuthorValues
    /\ call_pc = "call"
    /\ call_ret = <<>>

\* the String returned, or the panic of one of the components
FormatAuthors ==
    /\ call_pc = "call"
    /\ IF \E n \in 1..Len(Split(call_arg, Str_and)) :
              FormatAuthorPanics(Split(call_arg, Str_and)[n])
       THEN /\ call_pc' = "panic"
            /\ UNCHANGED call_ret
       ELSE /\ call_ret' = format_authors(call_arg)
            /\ call_pc' = "done"
    /\ UNCHANGED call_arg
    /\ UNCHANGED non_call_vars

(***************************************************************************)
(* arxiv_identifiers.rs: parsing and printing an ArxivId.  An ArxivId is   *)
(* [id, version], the version being <<>> (None) or <<n>> (Some(n)).        *)
(***************************************************************************)
DecimalDigits == <<"0","1","2","3","4","5","6","7","8","9">>

IsDigit(c) == \E i \in DOMAIN DecimalDigits : DecimalDigits[i] = c

DigitValue(c) == (CHOOSE i \in DOMAIN DecimalDigits : DecimalDigits[i] = c) - 1

RECURSIVE DigitsValue(_, _)
DigitsValue(s, acc) ==
    IF s = <<>> THEN acc
    ELSE DigitsValue(Tail(s), 10 * acc + DigitValue(Head(s)))

\* str::parse::<usize>: an optional "+", then one or more decimal digits
\* (the strings of the model are too short to overflow a usize)
ParseUsize(s) ==
    LET d == IF s # <<>> /\ Head(s) = "+" THEN Tail(s) ELSE s
    IN  IF d # <<>> /\ \A i \in DOMAIN d : IsDigit(d[i])
        THEN <<DigitsValue(d, 0)>>
        ELSE <<>>

\* the "{}" format of a usize
RECURSIVE ToDecimal(_)
ToDecimal(n) ==
    IF n < 10 THEN <<DecimalDigits[n + 1]>>
    ELSE ToDecimal(n \div 10) \o <<DecimalDigits[(n % 10) + 1]>>

\* s.rfind(c) as a 1-based index, 0 for None
RFind(s, c) ==
    LET I == {i \in DOMAIN s : s[i] = c}
    IN  IF I = {} THEN 0 ELSE CHOOSE i \in I : \A j \in I : j <= i

\* parse_arxiv_id, hence ArxivId::try_from: <<>> for None / Err(())
parse_arxiv_id(s) ==
    LET last_v == RFind(s, "v")
    IN  IF last_v = 0
        THEN <<[id |-> s, version |-> <<>>]>>
        ELSE LET parsed == ParseUsize(SubSeq(s, last_v + 1, Len(s)))
             IN  IF parsed = <<>>
                 THEN <<>>
                 ELSE <<[id |-> SubSeq(s, 1, last_v - 1), version |-> parsed]>>

\* Display for ArxivId
ArxivIdFmt(a) ==
    IF a.version = <<>> THEN a.id
    ELSE a.id \o <<"v">> \o ToDecimal(a.version[1])

(***************************************************************************)
(* setup.rs: SetupConfig::run.  A DownloadRequest is <<"Doi", doi>> or     *)
(* <<"Arxiv", id>>; run builds no Url request.  The maps doi_to_sha256     *)
(* and arxiv_to_sha256 are kept as their sets of keys, run only asking     *)
(* whether a key is there.                                                 *)
(***************************************************************************)
Str_doi == <<"d","o","i",":">>
Str_arxiv == <<"a","r","x","i","v",":">>
Str_pdf == <<".","p","d","f">>

\* Display for DownloadRequest
DisplayRequest(r) ==
    IF r[1] = "Arxiv" THEN Str_arxiv \o ArxivIdFmt(r[2]) ELSE Str_doi \o r[2]

already_present(self, r) ==
    IF r[1] = "Arxiv" THEN r[2].id \in self.arxiv_to_sha256
    ELSE r[2] \in self.doi_to_sha256

MapDoi(ds) == [i \in DOMAIN ds |-> <<"Doi", ds[i]>>]

\* filter_map(|d| Some(Arxiv(ArxivId::try_from(d).ok()?)))
FilterMapArxiv(es) ==
    LET Parses(d) == parse_arxiv_id(d) # <<>>
        kept == SelectSeq(es, Parses)
    IN  [i \in DOMAIN kept |-> <<"Arxiv", parse_arxiv_id(kept[i])[1]>>]

doi_requests(self, ds) ==
    LET New(d) == d \notin self.existing_doi
    IN  MapDoi(SelectSeq(ds, New))

arxiv_requests(self, es) ==
    LET New(d) == d \notin self.existing_arxiv
    IN  FilterMapArxiv(SelectSeq(es, New))

pdf_requests(self, ds, es) ==
    LET Absent(r) == ~already_present(self, r)
    IN  SelectSeq(MapDoi(ds) \o FilterMapArxiv(es), Absent)

\* the characters that download_one_pdf replaces by "_" in a file name
FilenameReplaced ==
    {" ", "(", ")", "/", ":", "?", "=", "&", "'", "{", "}", ",", "\"", "."}

UpperCase == <<"A","B","C","D","E","F","G","H","I","J","K","L","M",
               "N","O","P","Q","R","S","T","U","V","W","X","Y","Z">>
LowerCase == <<"a","b","c","d","e","f","g","h","i","j","k","l","m",
               "n","o","p","q","r","s","t","u","v","w","x","y","z">>

to_ascii_lowercase(s) ==
    [i \in DOMAIN s |->
        IF \E k \in DOMAIN UpperCase : UpperCase[k] = s[i]
        THEN LowerCase[CHOOSE k \in DOMAIN UpperCase : UpperCase[k] = s[i]]
        ELSE s[i]]

Filename(r) ==
    LET low == to_ascii_lowercase(DisplayRequest(r))
    IN  [i \in DOMAIN low |-> IF low[i] \in FilenameReplaced THEN "_" ELSE low[i]]
        \o Str_pdf

\* DxDoiDownloader::download_one: the text dx.doi.org serves for the DOI
\* (without its leading space), None when down holds the DOI
DxDoi_download_one(r, down) ==
    IF r[1] = "Doi" /\ r[2] \notin down THEN << <<"bibtex", r[2]>> >> ELSE <<>>

\* ArxivDownloader::download_one: the same text for every identifier
Arxiv_download_one(r) ==
    IF r[1] = "Arxiv" THEN << <<"<PDF DATA>">> >> ELSE <<>>

\* PdfDownloader::download_one_pdf: Option<PdfResult>; the sha256 stands for
\* the bytes served, which are those of the DOI, or of the id of the ArxivId
\* (to_pdf_url leaves the version out)
download_one_pdf(r, down) ==
    IF r[1] = "Doi" /\ r[2] \in down THEN <<>>
    ELSE <<[filepath |-> Filename(r),
            sha256 |-> IF r[1] = "Arxiv" THEN <<"arxiv", r[2].id>> ELSE <<"doi", r[2]>>,
            entry |-> IF r[1] = "Arxiv"
                      THEN <<DisplayRequest(r), "eprint", ArxivIdFmt(r[2])>>
                      ELSE <<DisplayRequest(r), "doi", r[2]>>]>>

\* the future the stream named pc runs for the request r
DownloadOne(pc, r, down) ==
    CASE pc = "doi" -> DxDoi_download_one(r, down)
      [] pc = "arxiv" -> Arxiv_download_one(r)
      [] pc = "pdf" -> download_one_pdf(r, down)

\* the argument of buffer_unordered
BufferSize == 5

\* Iterator::zip: as long as the shorter of the two
Zip(a, b) ==
    [i \in 1..(IF Len(a) <= Len(b) THEN Len(a) ELSE Len(b)) |-> <<a[i], b[i]>>]

\* res.into_iter().zip(dois.iter().chain(eprints.iter())).map(|(r, d)| (d, r))
Entries(rs, ds, es) ==
    LET z == Zip(rs, ds \o es) IN [i \in DOMAIN z |-> <<z[i][2], z[i][1]>>]

\* pdf_requests.into_iter().zip(pdfs).map(|(r, p)| (format!("{}", r), p))
Pdfs(rq, ps) ==
    LET z == Zip(rq, ps) IN [i \in DOMAIN z |-> <<DisplayRequest(z[i][1]), z[i][2]>>]

IdentNames == <<"a","b","c","d","e","f","g","h">>
Dois == {<<IdentNames[i]>> : i \in 1..MaxDois}
Eprints == {<<"y">>, <<"y","v","1">>, <<"y","v">>}
\* one more DOI than buffer_unordered runs at a time
BusyDois == {<<IdentNames[i]>> : i \in 1..(BufferSize + 1)}

SetupInit ==
    /\ \/ /\ \E D \in SUBSET Dois : dois \in Orderings(D)
          /\ \E E \in {E \in SUBSET Eprints : Cardinality(E) <= MaxEprints} :
                eprints \in Orderings(E)
          /\ \E xd \in SUBSET Dois, xa \in SUBSET {<<"y">>}, pdf \in BOOLEAN :
             \E sd \in SUBSET xd, sa \in SUBSET xa :
                config = [existing_doi |-> xd, existing_arxiv |-> xa,
                          doi_to_sha256 |-> sd, arxiv_to_sha256 |-> sa,
                          download_pdf |-> pdf]
          /\ unreachable \in SUBSET Dois
       \/ /\ dois \in Orderings(BusyDois)
          /\ eprints = <<>>
          /\ config = [existing_doi |-> BusyDois, existing_arxiv |-> {},
                       doi_to_sha256 |-> {}, arxiv_to_sha256 |-> {},
                       download_pdf |-> TRUE]
          /\ unreachable = {}
    /\ requests = <<>>
    /\ setup_pc = "start"
    /\ next_req = 1
    /\ in_flight = {}
    /\ collected = <<>>
    /\ res = <<>>
    /\ setup_result = <<>>

\* run down to the first await: the three request lists are built
BuildRequests ==
    /\ setup_pc = "start"
    /\ requests' = [doi |-> doi_requests(config, dois),
                    arxiv |-> arxiv_requests(config, eprints),
                    pdf |-> pdf_requests(config, dois, eprints)]
    /\ setup_pc' = "doi"
    /\ UNCHANGED <<config, dois, eprints, unreachable, next_req, in_flight,
                   collected, res, setup_result>>
    /\ UNCHANGED non_setup_vars

Streaming == setup_pc \in {"doi", "arxiv", "pdf"}

\* buffer_unordered: while fewer than BufferSize futures run and a request
\* is left, the future of the next request is started
StartFuture ==
    /\ Streaming
    /\ Cardinality(in_flight) < BufferSize
    /\ next_req <= Len(requests[setup_pc])
    /\ in_flight' = in_flight \cup {next_req}
    /\ next_req' = next_req + 1
    /\ UNCHANGED <<config, dois, eprints, unreachable, requests, setup_pc,
                   collected, res, setup_result>>
    /\ UNCHANGED non_setup_vars

\* buffer_unordered: once the buffer is full or no request is left, any of
\* the running futures completes and its output is the stream's next item
CompleteFuture ==
    /\ Streaming
    /\ Cardinality(in_flight) = BufferSize \/ next_req > Len(requests[setup_pc])
    /\ \E i \in in_flight :
          /\ in_flight' = in_flight \ {i}
          /\ collected' = Append(collected,
                DownloadOne(setup_pc, requests[setup_pc][i], unreachable))
    /\ UNCHANGED <<config, dois, eprints, unreachable, requests, setup_pc,
                   next_req, res, setup_result>>
    /\ UNCHANGED non_setup_vars

StreamOver == in_flight = {} /\ next_req > Len(requests[setup_pc])

\* doi_downloader.download(..).await: res_doi, which res is extended by first
DoiDownloaded ==
    /\ setup_pc = "doi"
    /\ StreamOver
    /\ res' = res \o collected
    /\ setup_pc' = "arxiv"
    /\ next_req' = 1
    /\ collected' = <<>>
    /\ UNCHANGED <<config, dois, eprints, unreachable, requests, in_flight,
                   setup_result>>
    /\ UNCHANGED non_setup_vars

\* epr_downloader.download(..).await, res.extend(res_eprint), and the return
\* of the call when download_pdf is not set
ArxivDownloaded ==
    /\ setup_pc = "arxiv"
    /\ StreamOver
    /\ res' = res \o collected
    /\ IF ~config.download_pdf
       THEN /\ setup_result' = <<[pdfs |-> <<>>, entries |-> Entries(res', dois, eprints)]>>
            /\ setup_pc' = "done"
       ELSE /\ setup_pc' = "pdf"
            /\ UNCHANGED setup_result
    /\ next_req' = 1
    /\ collected' = <<>>
    /\ UNCHANGED <<config, dois, eprints, unreachable, requests, in_flight>>
    /\ UNCHANGED non_setup_vars

\* the pdf stream is collected and the SetupResult returned
PdfDownloaded ==
    /\ setup_pc = "pdf"
    /\ StreamOver
    /\ setup_result' = <<[pdfs |-> Pdfs(requests.pdf, collected),
                          entries |-> Entries(res, dois, eprints)]>>
    /\ setup_pc' = "done"
    /\ UNCHANGED <<config, dois, eprints, unreachable, requests, next_req,
                   in_flight, collected, res>>
    /\ UNCHANGED non_setup_vars

SetupIdle ==
    /\ config = <<>>
    /\ dois = <<>>
    /\ eprints = <<>>
    /\ unreachable = {}
    /\ requests = <<>>
    /\ setup_pc = "idle"
    /\ next_req = 1
    /\ in_flight = {}
    /\ collected = <<>>
    /\ res = <<>>
    /\ setup_result = <<>>

CallIdle ==
    /\ call_arg = <<>>
    /\ call_pc = "idle"
    /\ call_ret = FALSE

(***************************************************************************)
(* Specifications: one per operation, the rest of the state idle.          *)
(***************************************************************************)
InitTypo == TypoInit /\ revoked_dois = {} /\ FieldIdle /\ LintIdle /\ CallIdle /\ SetupIdle
SpecTypo == InitTypo /\ [][TypoNext]_vars

InitField == FieldInit /\ TypoIdle /\ LintIdle /\ CallIdle /\ SetupIdle
NextField == LintField
SpecField == InitField /\ [][NextField]_vars

InitLint == LintInit /\ TypoIdle /\ FieldIdle /\ CallIdle /\ SetupIdle
NextLint == LintEntry \/ LintFile
SpecLint == InitLint /\ [][NextLint]_vars

InitBase == BaseInit /\ revoked_dois = {} /\ FieldIdle /\ LintIdle /\ CallIdle /\ SetupIdle
NextBase == BaseStart \/ BaseStep \/ BaseFilter
SpecBase == InitBase /\ [][NextBase]_vars

InitArxiv == ArxivInit /\ revoked_dois = {} /\ TypoIdle /\ FieldIdle /\ LintIdle /\ SetupIdle
NextArxiv == PartialCmp
SpecArxiv == InitArxiv /\ [][NextArxiv]_vars

InitFormat == FormatInit /\ revoked_dois = {} /\ TypoIdle /\ FieldIdle /\ LintIdle /\ SetupIdle
NextFormat == FormatAuthors
SpecFormat == InitFormat /\ [][NextFormat]_vars

InitAuthors == AuthorsInit /\ revoked_dois = {} /\ TypoIdle /\ FieldIdle /\ LintIdle /\ SetupIdle
NextAuthors == CheckAuthors
SpecAuthors == InitAuthors /\ [][NextAuthors]_vars

InitCrucial == CrucialInit /\ revoked_dois = {} /\ TypoIdle /\ FieldIdle /\ LintIdle /\ SetupIdle
NextCrucial == IsCrucial
SpecCrucial == InitCrucial /\ [][NextCrucial]_vars

InitSetup == SetupInit /\ revoked_dois = {} /\ TypoIdle /\ FieldIdle /\ LintIdle /\ CallIdle
NextSetup ==
    \/ BuildRequests
    \/ StartFuture
    \/ CompleteFuture
    \/ DoiDownloaded
    \/ ArxivDownloaded
    \/ PdfDownloaded
SpecSetup == InitSetup /\ [][NextSetup]_vars

(***************************************************************************)
(* Edit distance (insertion, deletion, substitution of one character).     *)
(***************************************************************************)
\* s is w with one character replaced by another
OneSubstitution(s, w) ==
    /\ Len(s) = Len(w)
    /\ Cardinality({p \in 1..Len(s) : s[p] # w[p]}) = 1

\* s is w with one character inserted
OneInsertion(s, w) ==
    /\ Len(s) = Len(w) + 1
    /\ \E p \in 1..Len(s) : RemoveAt(s, p) = w

\* s is w with one character deleted
OneDeletion(s, w) ==
    /\ Len(s) + 1 = Len(w)
    /\ \E p \in 1..Len(w) : RemoveAt(w, p) = s

\* edit distance(s, w) = 1, when s # w
OneEdit(s, w) == OneSubstitution(s, w) \/ OneInsertion(s, w) \/ OneDeletion(s, w)

\* edit distance(s, w) <= 1
EditLe1(s, w) == s = w \/ OneEdit(s, w)

\* the call has returned or panicked
TypoEnded == typo_pc \in {"done", "panic"}

\* the set of words of the list returned
TypoWords == Range(typo_result)

author == <<"a","u","t","h","o","r">>
mvbook == <<"m","v","b","o","o","k">>
book == <<"b","o","o","k">>

(***************************************************************************)
(* Claims on the typo automaton, checked under SpecTypo.                   *)
(***************************************************************************)
\* C1: the words returned are exactly the lexicon words at edit distance at
\* most 1 of the input.
C1_ExactlyDistanceLe1 ==
    TypoEnded =>
        /\ typo_pc = "done"
        /\ TypoWords = {strings[i] : i \in {i \in 1..Len(strings) : EditLe1(input, strings[i])}}

\* C2: an input at edit distance at least 2 of every lexicon word gets the
\* empty result, whatever the lexicon (shared prefixes included).
C2_DistanceBound ==
    (TypoEnded /\ \A i \in 1..Len(strings) : ~EditLe1(input, strings[i])) =>
        /\ typo_pc = "done"
        /\ typo_result = <<>>

\* two words of the lexicon share a proper prefix of two characters, the input
\* starts like them, is at distance 2 or more of both and gets nothing
C2_Witness ==
    /\ typo_pc = "done"
    /\ Len(strings) = 2
    /\ strings[1] # strings[2]
    /\ Len(strings[1]) = 3 /\ Len(strings[2]) = 3
    /\ Prefix(strings[1], 2) = Prefix(strings[2], 2)
    /\ Len(input) >= 2
    /\ Prefix(input, 1) = Prefix(strings[1], 1)
    /\ \A i \in 1..Len(strings) : ~EditLe1(input, strings[i])
    /\ typo_result = <<>>

\* C3: a word of the lexicon, given as input, is among the words returned.
C3_Reflexivity ==
    (TypoEnded /\ \E i \in 1..Len(strings) : strings[i] = input) =>
        /\ typo_pc = "done"
        /\ input \in TypoWords

\* field_typo("author") has returned ["author"]
C3_Witness ==
    /\ typo_pc = "done"
    /\ strings = BIBTEX_FIELDS
    /\ input = author
    /\ typo_result = <<author>>

C5_SingleInsertion ==
    TypoEnded =>
        \A i \in 1..Len(strings) : OneInsertion(input, strings[i]) => strings[i] \in TypoWords

\* C6: a lexicon word of length 2 or more with one character deleted, at
\* any position, gets that word among the words returned; field_typo of
\* "autho" and of "authr" is exactly ["author"], entry_typo of "mbook" has
\* "mvbook".
C6_SingleDeletion ==
    TypoEnded =>
        /\ typo_pc = "done"
        /\ \A i \in 1..Len(strings) :
              (Len(strings[i]) >= 2 /\ OneDeletion(input, strings[i])) => strings[i] \in TypoWords
        /\ (strings = BIBTEX_FIELDS /\ input \in {RemoveAt(author, 6), RemoveAt(author, 5)})
              => typo_result = <<author>>
        /\ (strings = BIBTEX_ENTRY_TYPES /\ input = RemoveAt(mvbook, 2))
              => mvbook \in TypoWords

\* a word of three characters without its first, its inner or its last
\* character has been given, and the word is among the words returned
C6_Witness ==
    /\ typo_pc = "done"
    /\ \E i \in 1..Len(strings) :
          /\ Len(strings[i]) = 3
          /\ \E p \in 1..3 : RemoveAt(strings[i], p) = input
          /\ \A q \in 1..3 : RemoveAt(strings[i], q) = input => q = 2
          /\ strings[i] \in TypoWords

(***************************************************************************)
(* Claims on lint_field, checked under SpecField.                          *)
(***************************************************************************)
\* the condition of the n-th rule of the field validator
RuleHolds(n, key, value) ==
    CASE n = 1 -> value = <<>>
      [] n = 2 -> key = "author" /\ ~check_authors(value)
      [] n = 3 -> key = "doi" /\ Contains(value, Str_arXiv)
      [] n = 4 -> key = "doi" /\ StartsWith(value, Str_http)
      [] n = 5 -> key = "doi" /\ value \in revoked_dois
      [] n = 6 -> /\ key \notin {"doi", "eprint", "url"}
                  /\ \E p \in 1..Len(value) :
                        value[p] = "\\" \/ (value[p] \in ControlChars /\ value[p] # "\n")

\* the diagnostic of the n-th rule
RuleMsg(n, value) ==
    CASE n = 1 -> Msg("EmptyKey", <<>>)
      [] n = 2 -> Msg("AuthorFormat", <<>>)
      [] n = 3 -> Msg("ArxivAsDoi", <<>>)
      [] n = 4 -> Msg("HttpDoi", <<>>)
      [] n = 5 -> Msg("RevokedEntry", <<>>)
      [] n = 6 -> Msg("WeirdCharacters", <<value>>)

\* C7: lint_field returns the diagnostic of the first rule, in the order
\* EmptyKey, AuthorFormat, ArxivAsDoi, HttpDoi, RevokedEntry,
\* WeirdCharacters, whose condition holds, and nothing when none holds.
C7_FirstRuleFires ==
    field_pc = "done" =>
        LET hits == {n \in 1..6 : RuleHolds(n, field_key, field_value)}
        IN  /\ Len(field_out) <= 1
            /\ hits = {} => field_out = <<>>
            /\ hits # {} => field_out = <<RuleMsg(Min(hits), field_value)>>
            /\ (field_key = "doi" /\ Contains(field_value, Str_arXiv)
                    /\ StartsWith(field_value, Str_http))
                  => field_out = <<Msg("ArxivAsDoi", <<>>)>>
            /\ field_value = <<>> => field_out = <<Msg("EmptyKey", <<>>)>>

\* a doi that starts with http, contains arXiv and is revoked has got
\* ArxivAsDoi
C7_Witness ==
    /\ field_pc = "done"
    /\ field_key = "doi"
    /\ StartsWith(field_value, Str_http)
    /\ Contains(field_value, Str_arXiv)
    /\ field_out = <<Msg("ArxivAsDoi", <<>>)>>

(***************************************************************************)
(* Claims on lint_entry and lint_file, checked under SpecLint.             *)
(***************************************************************************)
\* the positions of the messages equal to msg
MessagesWith(msg) == {n \in 1..Len(messages) : messages[n].msg = msg}

\* the entries of key k
EntriesOfKey(k) == {e \in 1..Len(entries) : entries[e].key = k}

\* C8: lint_file gives, for every key of more than one entry, exactly one
\* DuplicateKey(key), which lists the location of every entry of that key
\* (as many locations as entries), and none for a key of a single entry.
C8_DuplicateKey ==
    lint_pc = "file_done" =>
        /\ \A k \in Keys :
              LET dk == MessagesWith(Msg("DuplicateKey", <<k>>))
              IN  IF Cardinality(EntriesOfKey(k)) > 1
                  THEN /\ Cardinality(dk) = 1
                       /\ \A n \in dk :
                             /\ Range(messages[n].loc) = {EntryLoc(e) : e \in EntriesOfKey(k)}
                             /\ Len(messages[n].loc) = Cardinality(EntriesOfKey(k))
                  ELSE dk = {}
        /\ \A n \in 1..Len(messages) :
              messages[n].msg.kind = "DuplicateKey" => messages[n].msg.args[1] \in Keys

\* two entries share a key, a third has its own, and the one DuplicateKey
\* has two locations
C8_Witness ==
    /\ lint_pc = "file_done"
    /\ Len(entries) = 3
    /\ entries[1].key = entries[3].key
    /\ entries[2].key # entries[1].key
    /\ \E n \in 1..Len(messages) :
          /\ messages[n].msg = Msg("DuplicateKey", <<entries[1].key>>)
          /\ messages[n].loc = <<EntryLoc(1), EntryLoc(3)>>

\* the value of the last field of that name, or the empty string
ValueOrEmpty(entry, name) ==
    LET fs == {f \in 1..Len(entry.fields) : entry.fields[f].name = name}
    IN  IF fs = {} THEN <<>> ELSE entry.fields[Max(fs)].value

\* the tuple of the claim: doi, eprint, sha256
EprintTuple(entry) ==
    <<ValueOrEmpty(entry, "doi"), ValueOrEmpty(entry, "eprint"), ValueOrEmpty(entry, "sha256")>>

\* C9: lint_file groups the entries by (doi, eprint, sha256), each absent
\* one empty, and gives exactly one DuplicateDoiArxivSha256 with the
\* locations of the group for every group of more than one entry whose
\* tuple is not all empty, and none for any other group.
C9_DuplicateIdentifiers ==
    lint_pc = "file_done" =>
        /\ \A e \in 1..Len(entries) :
              LET id == EprintTuple(entries[e])
                  group == {d \in 1..Len(entries) : EprintTuple(entries[d]) = id}
                  di == MessagesWith(Msg("DuplicateDoiArxivSha256", id))
              IN  IF Cardinality(group) > 1 /\ id # <<<<>>, <<>>, <<>>>>
                  THEN /\ Cardinality(di) = 1
                       /\ \A n \in di : Range(messages[n].loc) = {EntryLoc(d) : d \in group}
                  ELSE di = {}
        /\ \A n \in 1..Len(messages) :
              messages[n].msg.kind = "DuplicateDoiArxivSha256" =>
                  \E e \in 1..Len(entries) : messages[n].msg.args = EprintTuple(entries[e])

\* C10: lint_entry gives, for each of author, title and year, exactly one
\* MissingField(name), located at the entry, when the entry has no field of
\* that name, and none when it has one.
C10_MissingField ==
    lint_pc = "entry_done" =>
        /\ \A name \in {"author", "title", "year"} :
              LET mf == MessagesWith(Msg("MissingField", <<name>>))
                  fields == entries[lint_arg].fields
              IN  IF \A f \in 1..Len(fields) : fields[f].name # name
                  THEN /\ Cardinality(mf) = 1
                       /\ \A n \in mf : messages[n].loc = <<EntryLoc(lint_arg)>>
                  ELSE mf = {}
        /\ \A n \in 1..Len(messages) :
              messages[n].msg.kind = "MissingField" =>
                  messages[n].msg.args[1] \in {"author", "title", "year"}

\* an entry whose fields are author and title has got exactly one
\* MissingField, for year
C10_Witness ==
    /\ lint_pc = "entry_done"
    /\ {entries[lint_arg].fields[f].name : f \in 1..Len(entries[lint_arg].fields)}
          = {"author", "title"}
    /\ {messages[n].msg : n \in {n \in 1..Len(messages) : messages[n].msg.kind = "MissingField"}}
          = {Msg("MissingField", <<"year">>)}
    /\ Cardinality(MessagesWith(Msg("MissingField", <<"year">>))) = 1

\* the fields of the entry given to lint_entry
ArgFields == entries[lint_arg].fields

\* the positions of the fields of a name among the fields of an entry
FieldsNamed(fields, name) == {f \in 1..Len(fields) : fields[f].name = name}

\* C11: lint_entry gives, for every field name that occurs more than once
\* in the entry, exactly one DuplicateFieldName(name), whose locations are
\* those of every field of that name in source order, and none for a name
\* that occurs once.
C11_DuplicateFieldName ==
    lint_pc = "entry_done" =>
        /\ \A name \in EntryFieldNames \cup FileFieldNames :
              LET occ == Sorted(FieldsNamed(ArgFields, name))
                  dm == MessagesWith(Msg("DuplicateFieldName", <<name>>))
              IN  IF Len(occ) > 1
                  THEN /\ Cardinality(dm) = 1
                       /\ \A n \in dm :
                             messages[n].loc = [i \in 1..Len(occ) |-> <<"field", lint_arg, occ[i]>>]
                  ELSE dm = {}
        /\ \A n \in 1..Len(messages) :
              messages[n].msg.kind = "DuplicateFieldName" =>
                  FieldsNamed(ArgFields, messages[n].msg.args[1]) # {}

\* an entry of three fields whose first and last have the same name, the
\* second another one, has got one DuplicateFieldName, at fields 1 and 3
C11_Witness ==
    /\ lint_pc = "entry_done"
    /\ Len(ArgFields) = 3
    /\ ArgFields[1].name = ArgFields[3].name
    /\ ArgFields[2].name # ArgFields[1].name
    /\ \E n \in 1..Len(messages) :
          /\ messages[n].msg = Msg("DuplicateFieldName", <<ArgFields[1].name>>)
          /\ messages[n].loc = << <<"field", lint_arg, 1>>, <<"field", lint_arg, 3>> >>

(***************************************************************************)
(* Claims on check_authors, checked under SpecAuthors.                     *)
(***************************************************************************)
\* a component is valid when it is a single token or when its first token
\* ends with a comma
ComponentValid(c) ==
    LET parts == SplitWhitespace(c)
    IN  \/ Len(parts) = 1
        \/ Len(parts) >= 1 /\ parts[1][Len(parts[1])] = ","

\* C12: check_authors(v) is true exactly when every component of v between
\* the separators " and " is valid, the empty and the whitespace-only
\* components included (they are not valid).
C12_CheckAuthors ==
    call_pc = "done" =>
        LET components == Split(call_arg, Str_and)
        IN  call_ret = (\A n \in 1..Len(components) : ComponentValid(components[n]))

(***************************************************************************)
(* More claims on lint_entry and lint_file, checked under SpecLint.        *)
(***************************************************************************)
\* C13: lint_entry gives exactly one UncheckableEntry, located at the
\* entry, when the entry has none of the fields url, doi, isbn, issn,
\* eprint, pmid, and none when it has any of them.
C13_UncheckableEntry ==
    lint_pc = "entry_done" =>
        LET um == MessagesWith(Msg("UncheckableEntry", <<>>))
        IN  IF \A name \in {"url", "doi", "isbn", "issn", "eprint", "pmid"} :
                   FieldsNamed(ArgFields, name) = {}
            THEN /\ Cardinality(um) = 1
                 /\ \A n \in um : messages[n].loc = << <<"entry", lint_arg>> >>
            ELSE um = {}

\* an entry whose only field among the six is pmid, beside another field,
\* has got no UncheckableEntry
C13_Witness ==
    /\ lint_pc = "entry_done"
    /\ Len(ArgFields) = 2
    /\ {ArgFields[f].name : f \in 1..2} = {"pmid", "note"}
    /\ \A n \in 1..Len(messages) : messages[n].msg.kind # "UncheckableEntry"
    /\ messages # <<>>

\* the diagnostics of lint_file that come from lint_entry: those of the
\* entry level and of the field level
FromEntry(m) == m.msg.kind \notin {"SyntaxError", "DuplicateKey", "DuplicateDoiArxivSha256"}

\* the entry a location belongs to
EntryOf(loc) == loc[2]

\* the diagnostics of the entry level and of the field level that the
\* result has for the e-th entry, in the order of the result
EntryPart(e) == SelectSeq(messages, LAMBDA m : FromEntry(m) /\ EntryOf(m.loc[1]) = e)

\* C14: in the result of lint_file, the diagnostics of the entry level and
\* of the field level of each entry are a result of lint_entry on that
\* entry alone, and those of an entry come before those of the entries
\* that follow it.
C14_EntryBlocks ==
    lint_pc = "file_done" =>
        /\ \A e \in 1..Len(entries) : EntryPart(e) \in lint_entry(entries[e], e)
        /\ \A n \in 1..Len(messages) :
              FromEntry(messages[n]) => EntryOf(messages[n].loc[1]) \in 1..Len(entries)
        /\ \A n1, n2 \in 1..Len(messages) :
              (n1 < n2 /\ FromEntry(messages[n1]) /\ FromEntry(messages[n2]))
                  => EntryOf(messages[n1].loc[1]) <= EntryOf(messages[n2].loc[1])

\* lint_file has run on two entries of the same key that differ by their
\* fields, the first with an empty field and the second with a revoked doi
C14_Witness ==
    /\ lint_pc = "file_done"
    /\ Len(entries) = 2
    /\ entries[1].key = entries[2].key
    /\ entries[1].fields = <<[name |-> "eprint", value |-> <<>>]>>
    /\ entries[2].fields = <<[name |-> "doi", value |-> <<"x">>]>>
    /\ \E n \in 1..Len(messages) :
          /\ messages[n].msg = Msg("EmptyKey", <<>>)
          /\ messages[n + 1].msg.kind = "MissingField"
          /\ EntryOf(messages[n + 1].loc[1]) = 2
    /\ messages[Len(messages)].msg.kind = "DuplicateKey"

\* the nodes of the tree of the document
Nodes ==
    {<<>>} \cup {<<i>> : i \in 1..(Len(error_nodes) + Len(entries))}
        \cup UNION { {<<Len(error_nodes) + e, f>> : f \in 1..Len(entries[e].fields)}
                     : e \in 1..Len(entries) }

\* the location that a diagnostic has for a node of kind ERROR
ErrorSpan(node) == IF node = <<>> THEN <<"root">> ELSE <<"error", node[1]>>

\* C15: lint_file gives exactly one SyntaxError for each node of kind
\* ERROR of the tree of the document, whatever the entries: its only
\* location is the node, and its payload the text of the node.
C15_SyntaxError ==
    lint_pc = "file_done" =>
        /\ \A node \in {node \in Nodes : Kind(node) = "ERROR"} :
              LET at == {n \in 1..Len(messages) : messages[n].loc = <<ErrorSpan(node)>>}
              IN  /\ Cardinality(at) = 1
                  /\ \A n \in at :
                        /\ messages[n].msg.kind = "SyntaxError"
                        /\ node # <<>> => messages[n].msg.args = <<error_nodes[node[1]]>>
        /\ \A n \in 1..Len(messages) :
              messages[n].msg.kind = "SyntaxError" =>
                  \E node \in Nodes :
                      Kind(node) = "ERROR" /\ messages[n].loc = <<ErrorSpan(node)>>

\* the place in the source of the first occurrence of what a diagnostic of
\* a duplicate reports: a field for a name, an entry for a key or a tuple
FirstOccurrence(m) ==
    CASE m.msg.kind = "DuplicateFieldName" -> Min(FieldsNamed(ArgFields, m.msg.args[1]))
      [] m.msg.kind = "DuplicateKey" -> Min(EntriesOfKey(m.msg.args[1]))
      [] m.msg.kind = "DuplicateDoiArxivSha256" -> Min({EntryOf(m.loc[i]) : i \in 1..Len(m.loc)})

\* C17: the order of the diagnostics is a function of the document: among
\* the DuplicateFieldName of an entry, among the DuplicateKey and among the
\* DuplicateDoiArxivSha256 of a file, a diagnostic comes before another
\* one when what it reports occurs first in the source.
C17_DeterministicOrder ==
    lint_pc \in {"entry_done", "file_done"} =>
        \A n1, n2 \in 1..Len(messages) :
            ( /\ n1 < n2
              /\ messages[n1].msg.kind = messages[n2].msg.kind
              /\ messages[n1].msg.kind
                    \in {"DuplicateFieldName", "DuplicateKey", "DuplicateDoiArxivSha256"}
              /\ lint_pc = "file_done" => messages[n1].msg.kind # "DuplicateFieldName" )
                => FirstOccurrence(messages[n1]) < FirstOccurrence(messages[n2])

\* the nodes of the document
DocLocs ==
    {<<"entry", e>> : e \in 1..Len(entries)}
        \cup UNION { {<<"field", e, f>> : f \in 1..Len(entries[e].fields)} : e \in 1..Len(entries) }
        \cup {<<"error", k>> : k \in 1..Len(error_nodes)}

\* the entry e lacks what the diagnostic m of the entry level reports
EntryLacks(e, m) ==
    CASE m.msg.kind = "UncheckableEntry" ->
            \A name \in {"url", "doi", "isbn", "issn", "eprint", "pmid"} :
                FieldsNamed(entries[e].fields, name) = {}
      [] OTHER -> FieldsNamed(entries[e].fields, m.msg.args[1]) = {}

\* C18: every location of every diagnostic of lint_entry and of lint_file
\* is a node of the document given; a diagnostic of the entry level is
\* located at the entry it is about (the one given to lint_entry), a
\* diagnostic of the field level at the field it is about, and a
\* DuplicateFieldName at fields of one entry that have the name.
C18_NoDanglingLocation ==
    lint_pc \in {"entry_done", "file_done"} =>
        \A n \in 1..Len(messages) :
            LET m == messages[n]
            IN  /\ m.loc # <<>>
                /\ \A i \in 1..Len(m.loc) : m.loc[i] \in DocLocs
                /\ (FromEntry(m) /\ lint_pc = "entry_done")
                      => \A i \in 1..Len(m.loc) : EntryOf(m.loc[i]) = lint_arg
                /\ m.msg.kind \in {"MissingField", "MissingOptionalField", "UncheckableEntry"}
                      => /\ Len(m.loc) = 1
                         /\ m.loc[1][1] = "entry"
                         /\ EntryLacks(EntryOf(m.loc[1]), m)
                /\ m.msg.kind \in { "EmptyKey", "AuthorFormat", "ArxivAsDoi", "HttpDoi",
                                     "RevokedEntry", "WeirdCharacters" }
                      => /\ Len(m.loc) = 1
                         /\ m.loc[1][1] = "field"
                         /\ LET field == entries[m.loc[1][2]].fields[m.loc[1][3]]
                            IN  lint_field(field.name, field.value) = <<m.msg>>
                /\ m.msg.kind = "DuplicateFieldName"
                      => \A i \in 1..Len(m.loc) :
                            /\ m.loc[i][1] = "field"
                            /\ EntryOf(m.loc[i]) = EntryOf(m.loc[1])
                            /\ entries[m.loc[i][2]].fields[m.loc[i][3]].name = m.msg.args[1]

\* lint_file has run on an ERROR node and two entries, and has located a
\* MissingField at the first entry and an EmptyKey at the field of the
\* second one
C18_Witness ==
    /\ lint_pc = "file_done"
    /\ Len(error_nodes) = 1
    /\ Len(entries) = 2
    /\ entries[1].fields = <<>>
    /\ \E n \in 1..Len(messages) :
          messages[n] = Lint(Msg("MissingField", <<"year">>), << <<"entry", 1>> >>)
    /\ \E n \in 1..Len(messages) :
          messages[n] = Lint(Msg("EmptyKey", <<>>), << <<"field", 2, 1>> >>)

(***************************************************************************)
(* Claims on is_crucial, checked under SpecCrucial.                        *)
(***************************************************************************)
\* C16: is_crucial depends on the variant alone: it is true for
\* SyntaxError, EmptyKey, MissingField, DuplicateFieldName, DuplicateKey
\* and DuplicateDoiArxivSha256, and false for the nine other variants.
C16_IsCrucial ==
    call_pc = "done" =>
        /\ call_arg.kind \in
              { "SyntaxError", "EmptyKey", "MissingField", "DuplicateFieldName",
                "DuplicateKey", "DuplicateDoiArxivSha256" }
                  => call_ret = TRUE
        /\ call_arg.kind \in
              { "WeirdCharacters", "AuthorFormat", "ArxivAsDoi", "HttpDoi",
                "UncheckableEntry", "MissingOptionalField", "RevokedEntry",
                "OutdatedEntry", "PublishedEquivalent" }
                  => call_ret = FALSE
        /\ \A m \in LintMessages : m.kind = call_arg.kind => is_crucial(m) = call_ret

\* is_crucial has answered true for a DuplicateKey of a non-empty key
C16_Witness ==
    /\ call_pc = "done"
    /\ call_arg = Msg("DuplicateKey", << <<"x">> >>)
    /\ call_ret = TRUE

(***************************************************************************)
(* More claims on the typo automaton, checked under SpecTypo.              *)
(***************************************************************************)
\* C19: field_typo and entry_typo return for every input: every state
\* that the filter of run_automaton keeps is a Right one, so that the arm
\* of the Left states, which panics, is never taken.
C19_Total ==
    /\ typo_pc # "panic"
    /\ typo_pc = "filtered" => \A s \in current_states : s[1] = "Right"

\* the filter has kept a state on an input that is no entry type but is
\* close to one
C19_Witness ==
    /\ typo_pc = "filtered"
    /\ strings = BIBTEX_ENTRY_TYPES
    /\ \A i \in 1..Len(strings) : strings[i] # input
    /\ current_states # {}

\* C20: the automaton of the empty lexicon has no final state, and a run
\* of it on any input returns nothing.
C20_EmptyLexicon ==
    (strings = <<>> /\ typo_pc # "idle") =>
        /\ nfa.final_states = {}
        /\ typo_pc = "filtered" => current_states = {}
        /\ TypoEnded => (typo_pc = "done" /\ typo_result = <<>>)

\* a run on the empty lexicon and an input of two characters or more has
\* returned nothing
C20_Witness ==
    /\ typo_pc = "done"
    /\ strings = <<>>
    /\ Len(input) >= 2
    /\ typo_result = <<>>

\* C21 as stated: a transition without label consumes no character, so
\* the set of current states of a run is closed under these transitions
\* whenever a character is about to be consumed.
C21_EpsilonClosure ==
    typo_pc = "run" =>
        \A t \in nfa.transitions :
            (t[2] = None /\ t[1] \in current_states) => t[3] \in current_states

\* C21 as amended: every step of a run consumes one character of the
\* input and takes every transition from a current state whose label is
\* that character or is None; a transition without label consumes one
\* character, whatever it is, and no closure is computed.
C21_NoneConsumesOne ==
    [][ (typo_pc = "run" /\ typo_pc' = "run") =>
            /\ pos' = pos + 1
            /\ current_states' =
                  { t[3] : t \in { t \in nfa.transitions :
                                     /\ t[1] \in current_states
                                     /\ t[2] = None \/ t[2] = input[pos + 1] } } ]_vars

\* one character that is not the first of the only word has been consumed
\* through the transitions without label, which lead to the edited copies
\* of the prefixes of length 0 and 1
C21_Witness ==
    /\ typo_pc = "run"
    /\ pos = 1
    /\ Len(strings) = 1
    /\ Len(strings[1]) >= 2
    /\ input[1] # strings[1][1]
    /\ input[1] # strings[1][2]
    /\ current_states = {<<"Right", <<1, 0>>>>, <<"Right", <<1, 1>>>>}

(***************************************************************************)
(* Claims on the base automaton, checked under SpecBase.                   *)
(***************************************************************************)
\* C22: run_automaton on assigning_automaton(words) returns exactly the
\* states of the words equal to the input, each at its full length: none
\* for a proper prefix of a word that is no word, and the state of the
\* word alone when the word is a prefix of another one.
C22_ExactMatch ==
    typo_pc = "base_done" =>
        /\ current_states =
              {<<i, Len(strings[i])>> : i \in {i \in 1..Len(strings) : strings[i] = input}}
        /\ (strings = <<hello, hell>> /\ input = hell) => current_states = {<<2, 4>>}
        /\ (strings = <<hello, hell>> /\ input = hel) => current_states = {}

\* a word that is a proper prefix of the other word of the list has been
\* given and the state of that word alone is returned
C22_Witness ==
    /\ typo_pc = "base_done"
    /\ Len(strings) = 2
    /\ strings[2] = input
    /\ Len(strings[1]) > Len(input)
    /\ Prefix(strings[1], Len(input)) = input
    /\ input # <<>>
    /\ current_states = {<<2, Len(input)>>}

(***************************************************************************)
(* Last claims on lint_entry and lint_file, checked under SpecLint.        *)
(***************************************************************************)
\* C23: the result of lint_entry has a diagnostic located at a field alone
\* exactly when lint_field gives that diagnostic for the name and the
\* value of that field, for every field of the entry, those of a repeated
\* name included, each with its own value.
C23_PerFieldDelegation ==
    lint_pc = "entry_done" =>
        \A f \in 1..Len(ArgFields) :
            LET at == {n \in 1..Len(messages) : messages[n].loc = << <<"field", lint_arg, f>> >>}
                due == lint_field(ArgFields[f].name, ArgFields[f].value)
            IN  /\ Cardinality(at) = Len(due)
                /\ \A n \in at : <<messages[n].msg>> = due

\* an entry has two fields named doi, the first with a revoked value and
\* the second empty: RevokedEntry is at the first and EmptyKey at the second
C23_Witness ==
    /\ lint_pc = "entry_done"
    /\ Len(ArgFields) = 2
    /\ ArgFields[1] = [name |-> "doi", value |-> <<"x">>]
    /\ ArgFields[2] = [name |-> "doi", value |-> <<>>]
    /\ \E n \in 1..Len(messages) :
          messages[n] = Lint(Msg("RevokedEntry", <<>>), << <<"field", lint_arg, 1>> >>)
    /\ \E n \in 1..Len(messages) :
          messages[n] = Lint(Msg("EmptyKey", <<>>), << <<"field", lint_arg, 2>> >>)

\* C26: every diagnostic of lint_entry and of lint_file has a location:
\* exactly one for SyntaxError, MissingField, MissingOptionalField,
\* UncheckableEntry and the diagnostics of the field level, two or more
\* for DuplicateFieldName, DuplicateKey and DuplicateDoiArxivSha256.
C26_LocationCount ==
    lint_pc \in {"entry_done", "file_done"} =>
        \A n \in 1..Len(messages) :
            IF messages[n].msg.kind \in {"DuplicateFieldName", "DuplicateKey", "DuplicateDoiArxivSha256"}
            THEN Len(messages[n].loc) >= 2
            ELSE Len(messages[n].loc) = 1

\* lint_file has given a DuplicateDoiArxivSha256 of two locations on two
\* entries of different keys, beside diagnostics of one location
C26_Witness ==
    /\ lint_pc = "file_done"
    /\ Len(entries) = 2
    /\ entries[1].key # entries[2].key
    /\ \E n \in 1..Len(messages) :
          /\ messages[n].msg.kind = "DuplicateDoiArxivSha256"
          /\ Len(messages[n].loc) = 2
    /\ \E n \in 1..Len(messages) :
          /\ messages[n].msg.kind = "MissingField"
          /\ Len(messages[n].loc) = 1

(***************************************************************************)
(* Claims on ArxivId, checked under SpecArxiv.                             *)
(***************************************************************************)
\* C24: partial_cmp gives None for two identifiers of different ids; for
\* equal ids it compares the version numbers when both have one, and an
\* identifier without version is greater than one with a version.
C24_PartialCmp ==
    call_pc = "done" =>
        LET self == call_arg[1]
            other == call_arg[2]
        IN  /\ self.id # other.id => call_ret = <<>>
            /\ (self.id = other.id /\ self.version # <<>> /\ other.version # <<>>)
                  => call_ret = << IF self.version[1] < other.version[1] THEN "Less"
                                   ELSE IF self.version[1] > other.version[1] THEN "Greater"
                                   ELSE "Equal" >>
            /\ (self.id = other.id /\ self.version = <<>> /\ other.version # <<>>)
                  => call_ret = <<"Greater">>
            /\ (self.id = other.id /\ self.version # <<>> /\ other.version = <<>>)
                  => call_ret = <<"Less">>

(***************************************************************************)
(* Claims on format_authors, checked under SpecFormat.                     *)
(***************************************************************************)
\* what a component becomes: itself when it has a comma, its token when it
\* has one token, and otherwise its last token, a comma, and its other
\* tokens in their order, with one space between two of them
Reformatted(c) ==
    LET parts == SplitWhitespace(c)
        n == Len(parts)
    IN  IF \E p \in 1..Len(c) : c[p] = "," THEN c
        ELSE IF n = 1 THEN parts[1]
        ELSE parts[n] \o <<",">> \o Concat([k \in 1..(n - 1) |-> <<" ">> \o parts[k]])

\* C25: the string that format_authors returns is made of what the
\* components of its input between the " and " become, in their order,
\* with " and " between two of them.
C25_FormatAuthors ==
    call_pc = "done" =>
        LET components == Split(call_arg, Str_and)
        IN  call_ret = Join([n \in 1..Len(components) |-> Reformatted(components[n])], Str_and)

\* "A B and A" has become "B, A and A": a component of two tokens, then
\* a component of one token
C25_Witness ==
    /\ call_pc = "done"
    /\ call_arg = <<"A", " ", "B">> \o Str_and \o <<"A">>
    /\ call_ret = <<"B", ",", " ", "A">> \o Str_and \o <<"A">>

\* C29: format_authors returns for every input: it never panics, the
\* empty string and the empty or whitespace-only components included.
C29_FormatReturns == call_pc # "panic"

(***************************************************************************)
(* Last claim on the typo automaton, checked under SpecTypo.               *)
(***************************************************************************)
\* the words of the lexicon within one edit of the input
CloseWords == {w \in Range(strings) : EditLe1(input, w)}

\* C30: the list that field_typo and entry_typo return has no word twice,
\* and it has one element when the input is within one edit of exactly
\* one word of the lexicon.
C30_EachWordOnce ==
    (TypoEnded /\ strings \in {BIBTEX_FIELDS, BIBTEX_ENTRY_TYPES}) =>
        /\ typo_pc = "done"
        /\ \A n1, n2 \in 1..Len(typo_result) : typo_result[n1] = typo_result[n2] => n1 = n2
        /\ Cardinality(CloseWords) = 1 => Len(typo_result) = 1

(***************************************************************************)
(* Claims on SetupConfig::run, checked under SpecSetup.                    *)
(***************************************************************************)
\* C27: in the SetupResult returned with download_pdf set, every pair of
\* pdfs holds a request and the result of the PDF download made for that
\* very request, whatever the order in which the downloads complete.
C27_PdfOfRequest ==
    (setup_pc = "done" /\ config.download_pdf) =>
        \A n \in DOMAIN setup_result[1].pdfs :
            \E k \in DOMAIN requests.pdf :
                /\ setup_result[1].pdfs[n][1] = DisplayRequest(requests.pdf[k])
                /\ setup_result[1].pdfs[n][2] = download_one_pdf(requests.pdf[k], unreachable)

\* C28: in the SetupResult returned, every pair of entries holds an
\* identifier and the result of the metadata request made for that very
\* DOI or eprint, also when identifiers are skipped (already in
\* existing_doi / existing_arxiv, or an eprint that is no ArxivId) and
\* whatever the order in which the requests complete.
C28_EntryOfIdentifier ==
    setup_pc = "done" =>
        \A n \in DOMAIN setup_result[1].entries :
            LET d == setup_result[1].entries[n][1]
                r == setup_result[1].entries[n][2]
            IN  \/ /\ d \in Range(dois)
                   /\ \E k \in DOMAIN requests.doi :
                         /\ requests.doi[k] = <<"Doi", d>>
                         /\ r = DxDoi_download_one(requests.doi[k], unreachable)
                \/ /\ d \in Range(eprints)
                   /\ \E k \in DOMAIN requests.arxiv :
                         /\ <<requests.arxiv[k][2]>> = parse_arxiv_id(d)
                         /\ r = Arxiv_download_one(requests.arxiv[k])

=============================================================================
